---- MODULE Spec2Model ----
(***************************************************************************)
(* container-build-checks: the module-level run of                          *)
(* container-build-checks.py (configuration, the loop over the              *)
(* .containerinfo descriptors, the summary and exit code) together with     *)
(* Image.__init__, check_image, check_labels and the two label verifiers.   *)
(*                                                                         *)
(* Strings.  A Python str is modelled as a sequence of symbols.  The        *)
(* delimiters ".", "/", ":", ",", "*" and "?" are symbols of their own;     *)
(* every other symbol stands for a block of characters holding no           *)
(* delimiter.  Strings that take part in a substring test (tags, release,   *)
(* the value of the reference label) are built from one-character symbols,  *)
(* so that "in" on the sequences is "in" on the strings.                    *)
(***************************************************************************)
EXTENDS Integers, Sequences, FiniteSets, TLC

VARIABLES
    config,     \* the RawConfigParser after config.read (General and Tags)
    result,     \* the CheckResult instance: hints, warnings, errors
    console,    \* the lines printed for the descriptor being looked at
    opened,     \* ci_dict and tar: the descriptor read and the archive opened
    image,      \* the Image of the descriptor being looked at
    seen,       \* number of descriptors the loop has taken so far
    pc,         \* position of the module-level code
    ret         \* the value handed to sys.exit / the interpreter's exit status

vars == <<config, result, console, opened, image, seen, pc, ret>>

----------------------------------------------------------------------------
(* Bounds of the model *)

\* descriptors returned by containerinfos() in one run
MaxImages == 2

\* largest number of top-level entries of an archive's manifest / index
MaxEntries == 2

----------------------------------------------------------------------------
(* str operations *)

\* s.startswith(p)
StartsWith(s, p) ==
    /\ Len(p) <= Len(s)
    /\ SubSeq(s, 1, Len(p)) = p

\* s.endswith(p)
EndsWith(s, p) ==
    /\ Len(p) <= Len(s)
    /\ SubSeq(s, Len(s) - Len(p) + 1, Len(s)) = p

\* needle in s
Contains(s, needle) ==
    \E i \in 0..(Len(s) - Len(needle)) : SubSeq(s, i + 1, i + Len(needle)) = needle

\* x in list
InList(x, list) == \E i \in 1..Len(list) : list[i] = x

\* x.split(",")
RECURSIVE Split(_)
Split(x) ==
    IF \A i \in 1..Len(x) : x[i] # ","
    THEN <<x>>
    ELSE LET k == CHOOSE i \in 1..Len(x) :
                      /\ x[i] = ","
                      /\ \A j \in 1..(i - 1) : x[j] # ","
         IN <<SubSeq(x, 1, k - 1)>> \o Split(SubSeq(x, k + 1, Len(x)))

\* converters={"list": lambda x: list(filter(None, x.split(",")))}
NonEmptyStr(s) == s # <<>>
getlist(x) == SelectSeq(Split(x), NonEmptyStr)

\* fnmatch.fnmatchcase(needle, pattern) for patterns built from literal
\* symbols, "*" and "?"
RECURSIVE fnmatchcase(_, _)
fnmatchcase(needle, pattern) ==
    IF pattern = <<>> THEN needle = <<>>
    ELSE IF Head(pattern) = "*"
         THEN \/ fnmatchcase(needle, Tail(pattern))
              \/ /\ needle # <<>>
                 /\ fnmatchcase(Tail(needle), pattern)
         ELSE /\ needle # <<>>
              /\ Head(pattern) = "?" \/ Head(pattern) = Head(needle)
              /\ fnmatchcase(Tail(needle), Tail(pattern))

\* match_patterns: the first pattern which matches; None is <<>> (no pattern
\* that getlist returns is empty)
RECURSIVE match_patterns(_, _)
match_patterns(needle, patterns) ==
    IF patterns = <<>> THEN <<>>
    ELSE IF fnmatchcase(needle, Head(patterns)) THEN Head(patterns)
    ELSE match_patterns(needle, Tail(patterns))

----------------------------------------------------------------------------
(* dict operations: a JSON object is the sequence of its (name, value)     *)
(* pairs in document order, names unique                                    *)

\* name in labels
Has(labels, name) == \E i \in 1..Len(labels) : labels[i].name = name

\* labels[name]
Get(labels, name) == labels[CHOOSE i \in 1..Len(labels) : labels[i].name = name].value

----------------------------------------------------------------------------
(* class CheckResult.  The threaded value r carries the three counters and  *)
(* the printed lines (field out).                                           *)

\* a printed line; by names the function whose statement printed it
Line(by, level, text, args) ==
    [by |-> by, level |-> level, text |-> text, args |-> args]

\* print(...) of a progress line
print(r, by, text, args) ==
    [r EXCEPT !.out = Append(@, Line(by, "Info", text, args))]

\* CheckResult.hint
hint(r, by, text, args) ==
    [r EXCEPT !.out = Append(@, Line(by, "Hint", text, args)), !.hints = @ + 1]

\* CheckResult.warn
warn(r, by, text, args) ==
    [r EXCEPT !.out = Append(@, Line(by, "Warning", text, args)), !.warnings = @ + 1]

\* CheckResult.error
error(r, by, text, args) ==
    [r EXCEPT !.out = Append(@, Line(by, "Error", text, args)), !.errors = @ + 1]

----------------------------------------------------------------------------
(* Names of the labels and the rule table *)

DotReference == <<".", "reference">>

\* LabelInfo.oci(): f"{self.prefix}.{self.suffix}"
oci(labelinfo) == labelinfo.prefix \o <<".">> \o labelinfo.suffix

\* f"{labelprefix}.{labelinfo.suffix}"
Prefixed(labelprefix, labelinfo) == labelprefix \o <<".">> \o labelinfo.suffix

LabelInfo(prefix, suffix, mandatory, mandatory_derived, verifier) ==
    [prefix |-> prefix, suffix |-> suffix, mandatory |-> mandatory,
     mandatory_derived |-> mandatory_derived, verifier |-> verifier]

OrgOpenbuildservice == <<"org", ".", "openbuildservice">>
OrgOpencontainersImage == <<"org", ".", "opencontainers", ".", "image">>
OrgOpensuse == <<"org", ".", "opensuse">>

LABEL_INFO ==
    << LabelInfo(OrgOpenbuildservice, <<"disturl">>, TRUE, TRUE, "verify_disturl"),
       LabelInfo(OrgOpencontainersImage, <<"title">>, TRUE, TRUE, "None"),
       LabelInfo(OrgOpencontainersImage, <<"description">>, TRUE, TRUE, "None"),
       LabelInfo(OrgOpencontainersImage, <<"version">>, TRUE, TRUE, "None"),
       LabelInfo(OrgOpencontainersImage, <<"created">>, TRUE, TRUE, "None"),
       LabelInfo(OrgOpencontainersImage, <<"vendor">>, TRUE, FALSE, "None"),
       LabelInfo(OrgOpencontainersImage, <<"url">>, TRUE, FALSE, "None"),
       LabelInfo(OrgOpensuse, <<"reference">>, TRUE, TRUE, "verify_reference") >>

\* "org.openbuildservice.disturl" and "org.opensuse.reference"
DisturlLabel == OrgOpenbuildservice \o <<".", "disturl">>
ReferenceLabel == OrgOpensuse \o <<".", "reference">>

----------------------------------------------------------------------------
(* Image.__init__ *)

\* is_local_build with "or" for "and"
IsLocalBuildEither(containerinfo) ==
    \/ "release" \notin containerinfo.keys
    \/ "disturl" \notin containerinfo.keys

\* is_local_build
IsLocalBuild(containerinfo) ==
    /\ "release" \notin containerinfo.keys
    /\ "disturl" \notin containerinfo.keys

\* InitException without the length test of the OCI branch
InitExceptionLegacyOnly(tar) ==
    IF tar.oci_layout
    THEN "None"
    ELSE IF tar.entries # 1
         THEN "Manifest doesn't have exactly one entry"
         ELSE "None"

\* the exception __init__ raises on the archive's number of top-level
\* entries (len(index["manifests"]) of an OCI archive, len(manifest) of a
\* docker archive), "None" when it raises none
InitException(tar) ==
    IF tar.oci_layout
    THEN IF tar.entries # 1
         THEN "OCI index doesn't have exactly one entry"
         ELSE "None"
    ELSE IF tar.entries # 1
         THEN "Manifest doesn't have exactly one entry"
         ELSE "None"

\* the Image that __init__ leaves when it does not raise;
\* labels is config.get("config", {}).get("Labels", {})
NewImage(containerinfo, tar) ==
    [containerinfo |-> containerinfo,
     labels |-> tar.labels,
     is_local_build |-> IsLocalBuild(containerinfo)]

----------------------------------------------------------------------------
(* verify_disturl *)

verify_disturl(img, r, value) ==
    IF "disturl" \notin img.containerinfo.keys /\ img.is_local_build
    THEN hint(r, "verify_disturl", "No disturl in containerinfo, local build?", <<>>)
    ELSE IF "disturl" \notin img.containerinfo.keys
    THEN error(r, "verify_disturl", "No disturl in containerinfo, but apparently not a local build.", <<>>)
    ELSE IF value # img.containerinfo.disturl
    THEN error(r, "verify_disturl",
               "org.openbuildservice.disturl not set correctly, bug in OBS?", <<>>)
    ELSE r

----------------------------------------------------------------------------
(* REFERENCE_RE and verify_reference *)

NoSymbol(s, c) == \A k \in 1..Len(s) : s[k] # c

\* REFERENCE_RE with (.+) for the tag
ReferenceReLooseTag(value) ==
    { m \in (1..Len(value)) \X (1..Len(value)) :
        /\ value[m[1]] = "/"
        /\ value[m[2]] = ":"
        /\ 1 < m[1]
        /\ m[1] + 1 < m[2]
        /\ m[2] < Len(value)
        /\ NoSymbol(SubSeq(value, 1, m[1] - 1), "/")
        /\ NoSymbol(SubSeq(value, m[1] + 1, m[2] - 1), ":") }

\* the ways ([^/]+)/([^:]+):([^:]+) matches the whole of value: the
\* positions <<i, j>> of the "/" and the ":" between the groups
REFERENCE_RE(value) ==
    { m \in (1..Len(value)) \X (1..Len(value)) :
        /\ value[m[1]] = "/"
        /\ value[m[2]] = ":"
        /\ 1 < m[1]
        /\ m[1] + 1 < m[2]
        /\ m[2] < Len(value)
        /\ NoSymbol(SubSeq(value, 1, m[1] - 1), "/")
        /\ NoSymbol(SubSeq(value, m[1] + 1, m[2] - 1), ":")
        /\ NoSymbol(SubSeq(value, m[2] + 1, Len(value)), ":") }

\* reference_match.groups()
groups(value) ==
    LET m == CHOOSE m \in REFERENCE_RE(value) : TRUE
    IN [registry |-> SubSeq(value, 1, m[1] - 1),
        repo |-> SubSeq(value, m[1] + 1, m[2] - 1),
        tag |-> SubSeq(value, m[2] + 1, Len(value))]

\* the checks after a successful match
ReferenceChecks(img, r, value, cfg) ==
    LET g == groups(value)
        r1 == IF cfg.General.Registry # <<>> /\ g.registry # cfg.General.Registry
              THEN warn(r, "verify_reference",
                        "The org.opensuse.reference label does not refer to the registry",
                        <<value, cfg.General.Registry>>)
              ELSE r
    IN IF ~InList(g.repo \o <<":">> \o g.tag, img.containerinfo.tags)
       THEN warn(r1, "verify_reference",
                 "The org.opensuse.reference label does not refer to an existing tag",
                 <<value>> \o img.containerinfo.tags)
       ELSE IF /\ "release" \in img.containerinfo.keys
               /\ ~Contains(g.tag, img.containerinfo.release)
       THEN warn(r1, "verify_reference",
                 "The org.opensuse.reference label does not refer to a tag identifying a specific build",
                 <<value>>)
       ELSE r1

verify_reference(img, r, value, cfg) ==
    IF REFERENCE_RE(value) = {}
    THEN error(r, "verify_reference",
               "The value of the org.opensuse.reference label is invalid", <<value>>)
    ELSE ReferenceChecks(img, r, value, cfg)

\* labelinfo.verifier(image, result, value)
verifier(labelinfo, img, r, value, cfg) ==
    CASE labelinfo.verifier = "verify_disturl" -> verify_disturl(img, r, value)
      [] labelinfo.verifier = "verify_reference" -> verify_reference(img, r, value, cfg)
      [] OTHER -> r

----------------------------------------------------------------------------
(* check_labels *)

\* Python's None for labelprefix, and a derived prefix
None == [none |-> TRUE, str |-> <<>>]
Some(str) == [none |-> FALSE, str |-> str]

\* truth value of labelprefix: None and "" are false
Truthy(labelprefix) == ~labelprefix.none /\ labelprefix.str # <<>>

\* reference_labels without the test on the end of the name
reference_labels_any_name(labels) ==
    LET reference == Get(labels, ReferenceLabel)
        SameValue(l) == l.value = reference
        Candidate(l) == l.name # ReferenceLabel
        picked == SelectSeq(SelectSeq(labels, SameValue), Candidate)
    IN [i \in 1..Len(picked) |-> picked[i].name]

\* reference_labels: the names of the labels, in document order, with the
\* value of the reference label, other than the reference label itself and
\* ending in ".reference"
reference_labels(labels) ==
    LET reference == Get(labels, ReferenceLabel)
        SameValue(l) == l.value = reference
        Candidate(l) == l.name # ReferenceLabel /\ EndsWith(l.name, DotReference)
        picked == SelectSeq(SelectSeq(labels, SameValue), Candidate)
    IN [i \in 1..Len(picked) |-> picked[i].name]

\* lines 151-165: <<result, labelprefix>> after the derivation
DerivePrefix(labels, r) ==
    IF Has(labels, ReferenceLabel)
    THEN LET found == reference_labels(labels)
         IN IF Len(found) = 0
            THEN <<warn(r, "check_labels",
                        "Could not find prefixed copy of the org.opensuse.reference label", <<>>),
                   None>>
            ELSE IF Len(found) > 1
            THEN <<warn(r, "check_labels",
                        "Unable to find which of those labels is the one corresponding to this image",
                        found),
                   None>>
            ELSE <<r, Some(SubSeq(found[1], 1, Len(found[1]) - Len(DotReference)))>>
    ELSE <<r, None>>

\* lines 166-172
ReportPrefix(r, labelprefix, cfg) ==
    IF ~Truthy(labelprefix)
    THEN warn(r, "check_labels",
              "Could not determine image specific label prefix, some checks will be skipped.",
              <<>>)
    ELSE LET r1 == print(r, "check_labels", "Detected image specific label prefix",
                         <<labelprefix.str>>)
         IN IF /\ cfg.General.Vendor # <<>>
               /\ ~StartsWith(labelprefix.str, cfg.General.Vendor \o <<".">>)
            THEN warn(r1, "check_labels", "Label prefix doesn't start with the vendor",
                      <<cfg.General.Vendor>>)
            ELSE r1

\* CheckPrefixed asking every rule for its prefixed copy, mandatory_derived
\* or not
CheckPrefixedAllMandatory(labels, r, labelprefix, labelinfo) ==
    IF ~Truthy(labelprefix) THEN r
    ELSE LET name == Prefixed(labelprefix.str, labelinfo)
         IN IF Has(labels, name)
            THEN IF ~Has(labels, oci(labelinfo))
                 THEN warn(r, "check_labels", "Label set but not its canonical label",
                           <<name, oci(labelinfo)>>)
                 ELSE IF Get(labels, oci(labelinfo)) # Get(labels, name)
                 THEN warn(r, "check_labels", "Label not identical to its canonical label",
                           <<name, oci(labelinfo)>>)
                 ELSE r
            ELSE warn(r, "check_labels", "Labels not specified by this image",
                      <<oci(labelinfo), name>>)

\* lines 184-192: the checks of the prefixed label of one rule
CheckPrefixed(labels, r, labelprefix, labelinfo) ==
    IF ~Truthy(labelprefix) THEN r
    ELSE LET name == Prefixed(labelprefix.str, labelinfo)
         IN IF Has(labels, name)
            THEN IF ~Has(labels, oci(labelinfo))
                 THEN warn(r, "check_labels", "Label set but not its canonical label",
                           <<name, oci(labelinfo)>>)
                 ELSE IF Get(labels, oci(labelinfo)) # Get(labels, name)
                 THEN warn(r, "check_labels", "Label not identical to its canonical label",
                           <<name, oci(labelinfo)>>)
                 ELSE r
            ELSE IF labelinfo.mandatory_derived
                 THEN warn(r, "check_labels", "Labels not specified by this image",
                           <<oci(labelinfo), name>>)
                 ELSE r

\* CheckRule going on to the other checks after the 'not set' warning
CheckRuleNoContinue(img, r, labelprefix, labelinfo, cfg) ==
    LET r0 == IF labelinfo.mandatory /\ ~Has(img.labels, oci(labelinfo))
              THEN warn(r, "check_labels", "Label is not set by the image or any of its bases",
                        <<oci(labelinfo)>>)
              ELSE r
        r1 == IF Has(img.labels, oci(labelinfo)) /\ labelinfo.verifier # "None"
              THEN verifier(labelinfo, img, r0, Get(img.labels, oci(labelinfo)), cfg)
              ELSE r0
    IN CheckPrefixed(img.labels, r1, labelprefix, labelinfo)

\* lines 175-192: the body of the loop for one rule
CheckRule(img, r, labelprefix, labelinfo, cfg) ==
    IF labelinfo.mandatory /\ ~Has(img.labels, oci(labelinfo))
    THEN warn(r, "check_labels", "Label is not set by the image or any of its bases",
              <<oci(labelinfo)>>)
    ELSE LET r1 == IF Has(img.labels, oci(labelinfo)) /\ labelinfo.verifier # "None"
                   THEN verifier(labelinfo, img, r, Get(img.labels, oci(labelinfo)), cfg)
                   ELSE r
         IN CheckPrefixed(img.labels, r1, labelprefix, labelinfo)

\* for labelinfo in LABEL_INFO, from rule k on
RECURSIVE CheckRules(_, _, _, _, _)
CheckRules(img, r, labelprefix, k, cfg) ==
    IF k > Len(LABEL_INFO) THEN r
    ELSE CheckRules(img, CheckRule(img, r, labelprefix, LABEL_INFO[k], cfg),
                    labelprefix, k + 1, cfg)

\* lines 147-148
CheckDisturlLabel(labels, r) ==
    IF ~Has(labels, DisturlLabel)
    THEN error(r, "check_labels",
               "org.openbuildservice.disturl not set correctly, bug in OBS?", <<>>)
    ELSE r

check_labels(img, r, cfg) ==
    LET r1 == CheckDisturlLabel(img.labels, r)
        d == DerivePrefix(img.labels, r1)
        r2 == ReportPrefix(d[1], d[2], cfg)
    IN CheckRules(img, r2, d[2], 1, cfg)

----------------------------------------------------------------------------
(* check_image *)

\* [{"url": "obsrepositories:/"}]
OnlyObsRepositories == << [url |-> <<"obsrepositories", ":", "/">>] >>

\* CheckRepos content with any list that holds the obsrepositories:/ entry
CheckReposAnyEntry(containerinfo, r) ==
    IF "repos" \in containerinfo.keys
       /\ \A i \in 1..Len(containerinfo.repos) :
             <<containerinfo.repos[i]>> # <<[url |-> <<"obsrepositories", ":", "/">>]>>
    THEN warn(r, "check_image",
              "Using manually defined repositories in the image. Only obsrepositories:/ is allowed.",
              [i \in 1..Len(containerinfo.repos) |-> containerinfo.repos[i].url])
    ELSE r

\* lines 210-212
CheckRepos(containerinfo, r) ==
    IF "repos" \in containerinfo.keys /\ containerinfo.repos # OnlyObsRepositories
    THEN warn(r, "check_image",
              "Using manually defined repositories in the image. Only obsrepositories:/ is allowed.",
              [i \in 1..Len(containerinfo.repos) |-> containerinfo.repos[i].url])
    ELSE r

\* lines 215-218
CheckRelease(img, r) ==
    IF "release" \in img.containerinfo.keys
    THEN print(r, "check_image", "Release", <<img.containerinfo.release>>)
    ELSE IF ~img.is_local_build
    THEN error(r, "check_image",
               "No release in containerinfo, but apparently not a local build.", <<>>)
    ELSE r

\* lines 225-232: the prints and warnings of the loop for one tag
CheckTag(tag, r, cfg) ==
    LET allowed_tags == getlist(cfg.Tags.Allowed)
        blocked_tags == getlist(cfg.Tags.Blocked)
        r1 == print(r, "check_image", "Tag", <<tag>>)
        r2 == IF allowed_tags # <<>> /\ match_patterns(tag, allowed_tags) = <<>>
              THEN warn(r1, "check_image", "Tag is not allowed. Allowed patterns",
                        <<tag>> \o allowed_tags)
              ELSE r1
        blocked_pattern == match_patterns(tag, blocked_tags)
    IN IF blocked_pattern # <<>>
       THEN warn(r2, "check_image", "Tag is not allowed (blocked by)",
                 <<tag, blocked_pattern>>)
       ELSE r2

\* TagHasRelease comparing the tag with the release
TagIsRelease(containerinfo, tag) ==
    /\ "release" \in containerinfo.keys
    /\ tag = containerinfo.release

\* lines 234-235: whether this tag sets releasetagfound
TagHasRelease(containerinfo, tag) ==
    /\ "release" \in containerinfo.keys
    /\ Contains(tag, containerinfo.release)

\* lines 220-235: <<result, releasetagfound>> after the tags from k on
RECURSIVE TagLoop(_, _, _, _, _)
TagLoop(containerinfo, r, releasetagfound, k, cfg) ==
    IF k > Len(containerinfo.tags) THEN <<r, releasetagfound>>
    ELSE TagLoop(containerinfo,
                 CheckTag(containerinfo.tags[k], r, cfg),
                 releasetagfound \/ TagHasRelease(containerinfo, containerinfo.tags[k]),
                 k + 1, cfg)

\* lines 237-239
CheckReleaseTag(img, r, releasetagfound) ==
    IF ~releasetagfound /\ ~img.is_local_build
    THEN warn(r, "check_image",
              "None of the tags are unique to a specific build of the image.", <<>>)
    ELSE r

check_image(img, r, cfg) ==
    LET r1 == IF img.is_local_build
              THEN hint(r, "check_image",
                        "No release and disturl found in containerinfo, probably a local osc build.",
                        <<>>)
              ELSE r
        r2 == CheckRepos(img.containerinfo, r1)
        r3 == CheckRelease(img, r2)
        t == TagLoop(img.containerinfo, r3, FALSE, 1, cfg)
        r4 == CheckReleaseTag(img, t[1], t[2])
    IN check_labels(img, r4, cfg)

----------------------------------------------------------------------------
(* Summary and exit *)

\* str.lower() on the symbols the configuration values are built from
lower(value) ==
    [i \in 1..Len(value) |-> IF value[i] = "False" THEN "false"
                             ELSE IF value[i] = "True" THEN "true"
                             ELSE value[i]]

\* configparser's getboolean: "ValueError" when the value is no boolean
getboolean(value) ==
    IF lower(value) \in {<<"1">>, <<"yes">>, <<"true">>, <<"on">>} THEN "True"
    ELSE IF lower(value) \in {<<"0">>, <<"no">>, <<"false">>, <<"off">>} THEN "False"
    ELSE "ValueError"

\* lines 298-299: whether the summary raises
SummaryRaises(r, cfg) ==
    r.warnings > 0 /\ getboolean(cfg.General.FatalWarnings) = "ValueError"

\* ExitCode with every warning fatal, whatever FatalWarnings says
ExitCodeAnyWarning(r, cfg) ==
    IF r.errors > 0 \/ r.warnings > 0 THEN 1 ELSE 0

\* lines 296-307: ret when the summary does not raise
ExitCode(r, cfg) ==
    LET ret1 == IF r.warnings > 0 /\ getboolean(cfg.General.FatalWarnings) = "True"
                THEN 1 ELSE 0
    IN IF r.errors > 0 THEN 1 ELSE ret1

\* exit status of the interpreter after an uncaught exception
UncaughtExit == 1

----------------------------------------------------------------------------
(* Inputs: configurations, descriptors and archives *)

Pair(name, value) == [name |-> name, value |-> value]

ComSuse == <<"com", ".", "suse">>

Config(fatal, vendor, registry, allowed, blocked) ==
    [General |-> [FatalWarnings |-> fatal, Vendor |-> vendor, Registry |-> registry],
     Tags |-> [Allowed |-> allowed, Blocked |-> blocked]]

\* Allowed = "a:*" and Blocked = ",*:1,b:?"
AllowedA == <<"a", ":", "*">>
BlockedB == <<",", "*", ":", "1", ",", "b", ":", "?">>

\* the defaults of read_dict, and three configurations that set options
Configs ==
    { Config(<<"False">>, <<>>, <<>>, <<>>, <<>>),
      Config(<<"yes">>, ComSuse, <<"r">>, AllowedA, BlockedB),
      Config(<<"bogus">>, ComSuse, <<"r">>, <<>>, <<>>),
      Config(<<"False">>, ComSuse, <<>>, AllowedA, <<>>) }

\* tags "a:1-42", "a:1" and "b:l"
TagRelease == <<"a", ":", "1", "-", "4", "2">>
TagPlain == <<"a", ":", "1">>
TagOther == <<"b", ":", "l">>

Release42 == <<"4", "2">>
Disturl1 == <<"obs1">>
Disturl2 == <<"obs2">>

\* a containerinfo: keys are the keys present in the JSON object
Containerinfo(keys, tags, release, disturl, repos) ==
    [keys |-> keys \cup {"file", "tags"}, tags |-> tags,
     release |-> IF "release" \in keys THEN release ELSE <<>>,
     disturl |-> IF "disturl" \in keys THEN disturl ELSE <<>>,
     repos |-> IF "repos" \in keys THEN repos ELSE <<>>]

ExampleRepo == [url |-> <<"https", ":", "/", "/", "example", ".", "com", "/", "repo">>]

ReposValues ==
    { OnlyObsRepositories,
      <<ExampleRepo>>,
      OnlyObsRepositories \o <<ExampleRepo>>,
      OnlyObsRepositories \o OnlyObsRepositories,
      << [url |-> <<"obsrepositories", ":", "/">>, priority |-> <<"1">>] >>,
      <<>> }

\* descriptors varying release, disturl and tags
TagContainerinfos ==
    { Containerinfo(k, t, rel, Disturl1, <<>>) :
        k \in SUBSET {"release", "disturl"},
        t \in { <<>>, <<TagRelease>>, <<TagPlain>>, <<TagPlain, TagRelease>>,
                <<TagPlain, TagOther>> },
        rel \in {Release42, <<>>} }

\* descriptors varying repos
ReposContainerinfos ==
    { Containerinfo(k \cup {"repos"}, <<TagRelease>>, Release42, Disturl1, rp) :
        k \in {{}, {"release", "disturl"}}, rp \in ReposValues }

\* descriptors the label sets are crossed with: a local build, a build with
\* release and disturl, and builds with only one of them
LocalContainerinfo == Containerinfo({}, <<TagRelease>>, <<>>, <<>>, <<>>)
FullContainerinfo ==
    Containerinfo({"release", "disturl"}, <<TagRelease, TagPlain>>, Release42, Disturl1, <<>>)
DisturlContainerinfo == Containerinfo({"disturl"}, <<TagRelease>>, <<>>, Disturl1, <<>>)
ReleaseContainerinfo == Containerinfo({"release"}, <<TagPlain>>, Release42, <<>>, <<>>)

MainContainerinfos ==
    {LocalContainerinfo, FullContainerinfo, DisturlContainerinfo, ReleaseContainerinfo}

\* values of the reference label: four that match REFERENCE_RE with one
\* "/" and one ":", two more that match, five that do not
ReferenceValues ==
    { <<"r", "/", "a", ":", "1", "-", "4", "2">>,
      <<"r", "/", "a", ":", "1">>,
      <<"q", "/", "a", ":", "1", "-", "4", "2">>,
      <<"r", "/", "c", ":", "9">>,
      <<"r", ":", "5", "/", "a", ":", "1">>,
      <<"r", "/", "n", "/", "a", ":", "1">>,
      <<"a", ":", "1">>,
      <<"r", "/", "a">>,
      <<"r", "/", "a", ":", "1", ":", "2">>,
      <<"/", "a", ":", "1">>,
      <<>> }

GoodReference == <<"r", "/", "a", ":", "1", "-", "4", "2">>

\* the value given to the canonical and prefixed copy of a rule's label
ValueOf(labelinfo, reference, disturl) ==
    IF labelinfo.suffix = <<"reference">> THEN reference
    ELSE IF labelinfo.suffix = <<"disturl">> THEN disturl
    ELSE <<"text">>

\* all canonical labels, in table order
Canonical(reference, disturl) ==
    [k \in 1..Len(LABEL_INFO) |->
        Pair(oci(LABEL_INFO[k]), ValueOf(LABEL_INFO[k], reference, disturl))]

\* all labels with the given prefix, in table order
Copies(labelprefix, reference, disturl) ==
    [k \in 1..Len(LABEL_INFO) |->
        Pair(Prefixed(labelprefix, LABEL_INFO[k]), ValueOf(LABEL_INFO[k], reference, disturl))]

ComSuseApp == <<"com", ".", "suse", ".", "app">>

BaseLabels == Canonical(GoodReference, Disturl1) \o Copies(ComSuseApp, GoodReference, Disturl1)

\* list without its k-th element
Without(list, k) == SubSeq(list, 1, k - 1) \o SubSeq(list, k + 1, Len(list))

\* label sets varying the values of the reference and disturl labels
ValueLabelSets ==
    { Canonical(rf, Disturl1) \o Copies(ComSuseApp, rf, Disturl1) : rf \in ReferenceValues }
    \cup { Canonical(GoodReference, Disturl2) \o Copies(ComSuseApp, GoodReference, Disturl2) }

\* the base set with one label dropped, or one prefixed copy changed
EditedLabelSets ==
    { Without(BaseLabels, k) : k \in 1..Len(BaseLabels) }
    \cup { [BaseLabels EXCEPT ![Len(LABEL_INFO) + k].value = <<"other">>] :
             k \in 1..Len(LABEL_INFO) }
    \cup { Without(Without(BaseLabels, Len(LABEL_INFO) + 7), Len(LABEL_INFO) + 6) }

\* label sets varying the candidates for the prefix
CandidateLabelSets ==
    { <<>>,
      Canonical(GoodReference, Disturl1),
      Copies(ComSuseApp, GoodReference, Disturl1),
      Copies(ComSuseApp, GoodReference, Disturl1) \o Canonical(GoodReference, Disturl1),
      BaseLabels \o <<Pair(<<"other", ".", "reference">>, GoodReference)>>,
      BaseLabels \o <<Pair(<<"other", ".", "reference">>, <<"r", "/", "a", ":", "1">>)>>,
      BaseLabels \o <<Pair(<<"other", "reference">>, GoodReference)>>,
      BaseLabels \o <<Pair(<<"other", ".", "title">>, GoodReference)>>,
      Canonical(GoodReference, Disturl1) \o <<Pair(DotReference, GoodReference)>>,
      Canonical(GoodReference, Disturl1) \o Copies(<<>>, GoodReference, Disturl1),
      Canonical(GoodReference, Disturl1) \o Copies(ComSuse, GoodReference, Disturl1),
      Canonical(GoodReference, Disturl1) \o Copies(<<"com", ".", "susex">>, GoodReference, Disturl1),
      Canonical(GoodReference, Disturl1) \o Copies(<<"org", ".", "example">>, GoodReference, Disturl1),
      Canonical(GoodReference, Disturl1) \o Copies(ComSuseApp, GoodReference, Disturl1)
          \o Copies(<<"org", ".", "example">>, GoodReference, Disturl1) }

\* label sets tried with every one of MainContainerinfos
CrossedLabelSets ==
    ValueLabelSets
    \cup { <<>>,
           Without(BaseLabels, 1),
           Without(BaseLabels, Len(LABEL_INFO) + 1),
           Canonical(GoodReference, Disturl1) \o <<Pair(DotReference, GoodReference)>> }

\* the (containerinfo, labels) pairs the loop may be given
Descriptors ==
    (MainContainerinfos \X CrossedLabelSets)
    \cup ({FullContainerinfo} \X (EditedLabelSets \cup CandidateLabelSets))
    \cup ((TagContainerinfos \cup ReposContainerinfos) \X {BaseLabels})

\* the archives holding a label set
Archives(labels) ==
    { [oci_layout |-> o, entries |-> n, labels |-> labels] :
        o \in BOOLEAN, n \in 0..MaxEntries }

----------------------------------------------------------------------------
(* The run *)

NoImage == [containerinfo |-> Containerinfo({}, <<>>, <<>>, <<>>, <<>>),
            labels |-> <<>>, is_local_build |-> TRUE]

\* no descriptor is open
Closed == [ci_dict |-> NoImage.containerinfo,
           tar |-> [oci_layout |-> FALSE, entries |-> 1, labels |-> <<>>]]

\* the counters of r, and r from the counters and the printed lines
Counters(r) == [hints |-> r.hints, warnings |-> r.warnings, errors |-> r.errors]
Threaded(counters, out) ==
    [hints |-> counters.hints, warnings |-> counters.warnings,
     errors |-> counters.errors, out |-> out]

\* lines 266-274: result = CheckResult(), the configuration is read
Init ==
    /\ config \in Configs
    /\ result = [hints |-> 0, warnings |-> 0, errors |-> 0]
    /\ console = <<>>
    /\ opened = Closed
    /\ image = NoImage
    /\ seen = 0
    /\ pc = "config"
    /\ ret = 0

\* lines 276-280
CheckConfigResult(r, cfg) ==
    LET r1 == IF cfg.General.Vendor = <<>>
              THEN warn(r, "module", "No Vendor defined in the configuration", <<>>)
              ELSE r
    IN IF cfg.General.Registry = <<>>
       THEN hint(r1, "module", "No Registry defined in the configuration", <<>>)
       ELSE r1

CheckConfig ==
    /\ pc = "config"
    /\ LET r == CheckConfigResult(Threaded(result, console), config)
       IN /\ result' = Counters(r)
          /\ console' = <<>>
    /\ pc' = "loop"
    /\ UNCHANGED <<config, opened, image, seen, ret>>

\* lines 283-290: the next descriptor is read and its archive opened
OpenArchive ==
    /\ pc = "loop"
    /\ seen < MaxImages
    /\ \E d \in Descriptors : \E tar \in Archives(d[2]) :
          opened' = [ci_dict |-> d[1], tar |-> tar]
    /\ seen' = seen + 1
    /\ console' = <<Line("module", "Info", "Looking at", <<>>)>>
    /\ pc' = "open"
    /\ UNCHANGED <<config, result, image, ret>>

\* line 291: image = Image(ci_dict, tar); an exception ends the run
Construct ==
    /\ pc = "open"
    /\ IF InitException(opened.tar) # "None"
       THEN /\ pc' = "raised"
            /\ ret' = UncaughtExit
            /\ UNCHANGED <<opened, image>>
       ELSE /\ pc' = "image"
            /\ image' = NewImage(opened.ci_dict, opened.tar)
            /\ opened' = Closed
            /\ ret' = ret
    /\ UNCHANGED <<config, result, console, seen>>

\* line 292
CheckImage ==
    /\ pc = "image"
    /\ LET r == check_image(image, Threaded(result, console), config)
       IN /\ result' = Counters(r)
          /\ console' = r.out
    /\ pc' = "checked"
    /\ UNCHANGED <<config, opened, image, seen, ret>>

\* line 293 and the end of the with block: the blank line closes the
\* image's lines, the archive is closed and the Image is not used again
CloseArchive ==
    /\ pc = "checked"
    /\ pc' = "loop"
    /\ image' = NoImage
    /\ console' = <<>>
    /\ UNCHANGED <<config, result, opened, seen, ret>>

\* lines 295-309, after the last descriptor
Finish ==
    /\ pc = "loop"
    /\ IF SummaryRaises(result, config)
       THEN /\ pc' = "raised"
            /\ ret' = UncaughtExit
       ELSE /\ pc' = "done"
            /\ ret' = ExitCode(result, config)
    /\ UNCHANGED <<config, result, console, opened, image, seen>>

Next ==
    \/ CheckConfig
    \/ OpenArchive
    \/ Construct
    \/ CheckImage
    \/ CloseArchive
    \/ Finish

Spec == Init /\ [][Next]_vars

----------------------------------------------------------------------------
(* Vocabulary of the properties *)

LabelFunctions == {"check_labels", "verify_disturl", "verify_reference"}

\* number of lines of out printed by one of the functions of bys at a level
LinesOf(out, bys, level) ==
    Cardinality({i \in 1..Len(out) : out[i].by \in bys /\ out[i].level = level})

\* positions of the lines of out with this level and text
Positions(out, level, text) ==
    {i \in 1..Len(out) : out[i].level = level /\ out[i].text = text}

\* number of lines of the console with this origin, level and text
Printed(by, level, text) ==
    Cardinality({i \in Positions(console, level, text) : console[i].by = by})

DisturlError == "org.openbuildservice.disturl not set correctly, bug in OBS?"
NoPrefixedCopy == "Could not find prefixed copy of the org.opensuse.reference label"
AmbiguousPrefix ==
    "Unable to find which of those labels is the one corresponding to this image"
NoPrefix ==
    "Could not determine image specific label prefix, some checks will be skipped."
DetectedPrefix == "Detected image specific label prefix"
Orphaned == "Label set but not its canonical label"
Drifted == "Label not identical to its canonical label"
NotSpecified == "Labels not specified by this image"
NotSet == "Label is not set by the image or any of its bases"
InvalidReference == "The value of the org.opensuse.reference label is invalid"
NoRelease == "No release in containerinfo, but apparently not a local build."
NoUniqueTag == "None of the tags are unique to a specific build of the image."
ManualRepos ==
    "Using manually defined repositories in the image. Only obsrepositories:/ is allowed."

\* the containerinfo of the image has neither release nor disturl
NeitherReleaseNorDisturl ==
    {"release", "disturl"} \cap image.containerinfo.keys = {}

\* the labels, other than the reference label, named *.reference and
\* carrying the value of the reference label
Candidates ==
    { image.labels[i].name : i \in
        { j \in 1..Len(image.labels) :
            /\ Has(image.labels, ReferenceLabel)
            /\ image.labels[j].name # ReferenceLabel
            /\ EndsWith(image.labels[j].name, DotReference)
            /\ image.labels[j].value = Get(image.labels, ReferenceLabel) } }

\* a name without its trailing ".reference"
Stripped(name) == SubSeq(name, 1, Len(name) - 2)

\* the prefixes the console reports as detected
Detected ==
    { console[i].args[1] : i \in Positions(console, "Info", DetectedPrefix) }

\* the prefixed names the cross-checks of check_labels report
CrossChecked ==
    { console[i].args[1] :
        i \in Positions(console, "Warning", Orphaned) \cup Positions(console, "Warning", Drifted) }
    \cup { console[i].args[2] : i \in Positions(console, "Warning", NotSpecified) }

\* the prefixed names of the rules under a prefix
PrefixedNames(labelprefix) ==
    { Prefixed(labelprefix, LABEL_INFO[k]) : k \in 1..Len(LABEL_INFO) }

\* value reads host/repository:tag, split at its first "/" and last ":"
Parseable(value) ==
    /\ \E i \in 1..Len(value) : value[i] = "/"
    /\ \E j \in 1..Len(value) : value[j] = ":"
    /\ LET slash == CHOOSE i \in 1..Len(value) :
                        value[i] = "/" /\ \A k \in 1..(i - 1) : value[k] # "/"
           colon == CHOOSE j \in 1..Len(value) :
                        value[j] = ":" /\ \A k \in (j + 1)..Len(value) : value[k] # ":"
       IN /\ 1 < slash
          /\ slash + 1 < colon
          /\ colon < Len(value)
          /\ \A k \in (slash + 1)..(colon - 1) : value[k] # ":"

\* the three parts of a parseable value
HostOf(value) ==
    SubSeq(value, 1, (CHOOSE i \in 1..Len(value) :
                         value[i] = "/" /\ \A k \in 1..(i - 1) : value[k] # "/") - 1)
RepoTagOf(value) ==
    SubSeq(value, (CHOOSE i \in 1..Len(value) :
                      value[i] = "/" /\ \A k \in 1..(i - 1) : value[k] # "/") + 1, Len(value))
TagOf(value) ==
    SubSeq(value, (CHOOSE j \in 1..Len(value) :
                      value[j] = ":" /\ \A k \in (j + 1)..Len(value) : value[k] # ":") + 1,
           Len(value))

FatalWarningsEnabled == lower(config.General.FatalWarnings) \in {<<"1">>, <<"yes">>, <<"true">>, <<"on">>}

----------------------------------------------------------------------------
(* C1 *)

\* C1: when the run completes without an exception the exit code is 0 or 1,
\* and it is 1 exactly when an error was recorded, or a warning was recorded
\* and FatalWarnings is enabled; the hints do not enter.
C1_ExitCode ==
    pc = "done" =>
        /\ ret \in {0, 1}
        /\ ret = 1 <=> \/ result.errors > 0
                       \/ result.warnings > 0 /\ FatalWarningsEnabled

\* a run that ends with hints and warnings, no error, and exit code 1
C1_Witness ==
    /\ pc = "done"
    /\ seen > 0
    /\ result.hints > 0
    /\ result.warnings > 0
    /\ result.errors = 0
    /\ ret = 1

----------------------------------------------------------------------------
(* C2 *)

\* C2: for every image whose containerinfo has neither release nor disturl,
\* is_local_build is true and the disturl check records a hint and no error,
\* whatever the labels are.
C2_LocalBuildDisturl ==
    (pc = "checked" /\ NeitherReleaseNorDisturl) =>
        /\ image.is_local_build
        /\ Printed("verify_disturl", "Hint", "No disturl in containerinfo, local build?") = 1
        /\ Printed("check_labels", "Error", DisturlError) = 0
        /\ LinesOf(console, {"verify_disturl"}, "Error") = 0

----------------------------------------------------------------------------
(* C3 *)

\* C3: when the opened archive does not have exactly one top-level entry,
\* constructing the Image raises: the step leaves the counters and the
\* printed lines as they are, the exit status is not 0, and nothing runs
\* after the exception (no check of this image, no later descriptor).
C3_FatalEntryCount ==
    [][ /\ pc # "raised"
        /\ (pc = "open" /\ opened.tar.entries # 1) =>
              /\ pc' = "raised"
              /\ result' = result
              /\ console' = console
              /\ seen' = seen
              /\ ret' # 0 ]_vars

\* an OCI archive with two index entries raised while a further descriptor
\* could still have been looked at
C3_Witness ==
    /\ pc = "raised"
    /\ opened.tar.oci_layout
    /\ opened.tar.entries = 2
    /\ seen < MaxImages
    /\ LinesOf(console, LabelFunctions \cup {"check_image"}, "Warning") = 0

----------------------------------------------------------------------------
(* C4 *)

\* the prefixes of the labels named <prefix>.reference
PrefixesIn(labels) ==
    { Stripped(labels[i].name) : i \in
        { j \in 1..Len(labels) :
            labels[j].name # ReferenceLabel /\ EndsWith(labels[j].name, DotReference) } }

\* under the prefix every rule with mandatory_derived has an identical copy
CopiesUnder(labels, labelprefix) ==
    \A k \in 1..Len(LABEL_INFO) :
        LABEL_INFO[k].mandatory_derived =>
            /\ Has(labels, Prefixed(labelprefix, LABEL_INFO[k]))
            /\ Get(labels, Prefixed(labelprefix, LABEL_INFO[k])) = Get(labels, oci(LABEL_INFO[k]))

\* the label set the claim calls compliant
Compliant(labels) ==
    /\ \A k \in 1..Len(LABEL_INFO) : Has(labels, oci(LABEL_INFO[k]))
    /\ \E labelprefix \in PrefixesIn(labels) : CopiesUnder(labels, labelprefix)

\* C4 as stated: on a compliant label set check_labels records no warning
\* and no error.
C4_AsStated ==
    (pc = "checked" /\ Compliant(image.labels)) =>
        /\ LinesOf(console, LabelFunctions, "Warning") = 0
        /\ LinesOf(console, LabelFunctions, "Error") = 0

\* what the content checks of check_labels ask for beyond presence
PassesContentChecks ==
    LET labels == image.labels
        img == image
        cfg == config
        reference == Get(labels, ReferenceLabel)
        only == CHOOSE name \in Candidates : TRUE
    IN /\ Cardinality(Candidates) = 1
       /\ Stripped(only) # <<>>
       /\ CopiesUnder(labels, Stripped(only))
       /\ cfg.General.Vendor # <<>> =>
             StartsWith(Stripped(only), cfg.General.Vendor \o <<".">>)
       /\ \A k \in 1..Len(LABEL_INFO) :
             Has(labels, Prefixed(Stripped(only), LABEL_INFO[k])) =>
                Get(labels, Prefixed(Stripped(only), LABEL_INFO[k]))
                    = Get(labels, oci(LABEL_INFO[k]))
       /\ \/ {"release", "disturl"} \cap img.containerinfo.keys = {}
          \/ /\ "disturl" \in img.containerinfo.keys
             /\ Get(labels, DisturlLabel) = img.containerinfo.disturl
       /\ Parseable(reference)
       /\ cfg.General.Registry # <<>> => HostOf(reference) = cfg.General.Registry
       /\ InList(RepoTagOf(reference), img.containerinfo.tags)
       /\ "release" \in img.containerinfo.keys =>
             Contains(TagOf(reference), img.containerinfo.release)

\* C4 (amended): on a compliant label set that also passes the content
\* checks, check_labels and the verifiers print no warning and no error,
\* and the step changes the warnings and errors counters by the findings of
\* check_image on tags, release and repos alone; this holds for every
\* evaluation, the second of the same image included.
C4_CompliantLabels ==
    [][ (pc = "image" /\ Compliant(image.labels) /\ PassesContentChecks) =>
            /\ LinesOf(console', LabelFunctions, "Warning") = 0
            /\ LinesOf(console', LabelFunctions, "Error") = 0
            /\ result'.warnings = result.warnings + LinesOf(console', {"check_image"}, "Warning")
            /\ result'.errors = result.errors + LinesOf(console', {"check_image"}, "Error") ]_vars

\* the second image of a run is compliant, lacks the prefixed vendor and url
\* copies, and the run has recorded no warning and no error at all
C4_Witness ==
    /\ pc = "checked"
    /\ seen = 2
    /\ Compliant(image.labels)
    /\ PassesContentChecks
    /\ ~Has(image.labels, ComSuseApp \o <<".", "vendor">>)
    /\ result.warnings = 0
    /\ result.errors = 0

----------------------------------------------------------------------------
(* C5 *)

\* the findings of the prefix derivation when derivable tells whether a
\* prefix is derived from the labels
PrefixDerivation(derivable) ==
    /\ Has(image.labels, ReferenceLabel) =>
          /\ Cardinality(Candidates) = 0 =>
                /\ Printed("check_labels", "Warning", NoPrefixedCopy) = 1
                /\ Printed("check_labels", "Warning", AmbiguousPrefix) = 0
          /\ Cardinality(Candidates) > 1 =>
                /\ Printed("check_labels", "Warning", NoPrefixedCopy) = 0
                /\ Printed("check_labels", "Warning", AmbiguousPrefix) = 1
                /\ \A i \in Positions(console, "Warning", AmbiguousPrefix) :
                      {console[i].args[k] : k \in 1..Len(console[i].args)} = Candidates
          /\ Cardinality(Candidates) = 1 =>
                /\ Printed("check_labels", "Warning", NoPrefixedCopy) = 0
                /\ Printed("check_labels", "Warning", AmbiguousPrefix) = 0
    /\ ~Has(image.labels, ReferenceLabel) =>
          /\ Printed("check_labels", "Warning", NoPrefixedCopy) = 0
          /\ Printed("check_labels", "Warning", AmbiguousPrefix) = 0
    /\ derivable =>
          /\ Detected = {Stripped(CHOOSE name \in Candidates : TRUE)}
          /\ CrossChecked \subseteq PrefixedNames(Stripped(CHOOSE name \in Candidates : TRUE))
          /\ Printed("check_labels", "Warning", NoPrefix) = 0
    /\ ~derivable =>
          /\ Detected = {}
          /\ CrossChecked = {}
          /\ Printed("check_labels", "Warning", NoPrefix) = 1

\* C5 as stated: a prefix is derived and used exactly when the reference
\* label is present and has exactly one candidate.
C5_AsStated ==
    pc = "checked" =>
        PrefixDerivation(Has(image.labels, ReferenceLabel) /\ Cardinality(Candidates) = 1)

\* C5 (amended): as stated, except that a single candidate named exactly
\* ".reference" gives the empty prefix, which counts as no prefix: the
\* 'could not determine' warning is recorded and no cross-check runs.
C5_PrefixDerivation ==
    pc = "checked" =>
        PrefixDerivation(/\ Has(image.labels, ReferenceLabel)
                         /\ Cardinality(Candidates) = 1
                         /\ Candidates # {DotReference})

\* one candidate, its prefix detected and used by a cross-check
C5_Witness ==
    /\ pc = "checked"
    /\ Has(image.labels, ReferenceLabel)
    /\ Cardinality(Candidates) = 1
    /\ Detected = {ComSuseApp}
    /\ CrossChecked # {}

----------------------------------------------------------------------------
(* C6 *)

\* C6: when the value of the reference label does not read
\* host/repository:tag, verify_reference records one error and nothing
\* else, and the errors counter grows by the errors printed.
C6_InvalidReference ==
    [][ (/\ pc = "image"
         /\ Has(image.labels, ReferenceLabel)
         /\ ~Parseable(Get(image.labels, ReferenceLabel))) =>
            /\ LinesOf(console', {"verify_reference"}, "Error") = 1
            /\ Cardinality(Positions(console', "Error", InvalidReference)) = 1
            /\ LinesOf(console', {"verify_reference"}, "Warning") = 0
            /\ LinesOf(console', {"verify_reference"}, "Hint") = 0
            /\ result'.errors = result.errors
                                  + LinesOf(console', LabelFunctions \cup {"check_image"}, "Error") ]_vars

\* the value "r/a:1:2" was reported invalid
C6_Witness ==
    /\ pc = "checked"
    /\ Has(image.labels, ReferenceLabel)
    /\ Get(image.labels, ReferenceLabel) = <<"r", "/", "a", ":", "1", ":", "2">>
    /\ Printed("verify_reference", "Error", InvalidReference) = 1

----------------------------------------------------------------------------
(* C7 *)

\* some tag of the containerinfo contains its release
SomeTagHasRelease ==
    /\ "release" \in image.containerinfo.keys
    /\ \E k \in 1..Len(image.containerinfo.tags) :
          Contains(image.containerinfo.tags[k], image.containerinfo.release)

\* C7: the 'none of the tags are unique' warning is recorded once, after the
\* line of every tag, when the image is no local build and no tag contains
\* the release, and not at all otherwise.
C7_UniqueTagWarning ==
    pc = "checked" =>
        /\ Printed("check_image", "Warning", NoUniqueTag)
              = IF ~NeitherReleaseNorDisturl /\ ~SomeTagHasRelease THEN 1 ELSE 0
        /\ Printed("check_image", "Info", "Tag") = Len(image.containerinfo.tags)
        /\ \A i \in Positions(console, "Warning", NoUniqueTag) :
              \A j \in 1..Len(console) :
                 (console[j].by = "check_image" /\ console[j].text # NoUniqueTag) => j < i

\* tags = ["a:1-42"], release = "42": no warning
C7_Witness ==
    /\ pc = "checked"
    /\ image.containerinfo.tags = <<TagRelease>>
    /\ "release" \in image.containerinfo.keys
    /\ image.containerinfo.release = Release42
    /\ Printed("check_image", "Warning", NoUniqueTag) = 0

----------------------------------------------------------------------------
(* C8 *)

----------------------------------------------------------------------------
(* C9 *)

\* the rules whose prefixed label is present under the detected prefix
\* while their canonical label is absent
OrphanedRules ==
    { k \in 1..Len(LABEL_INFO) :
        \E labelprefix \in Detected :
            /\ Has(image.labels, Prefixed(labelprefix, LABEL_INFO[k]))
            /\ ~Has(image.labels, oci(LABEL_INFO[k])) }

\* number of warnings with this text about rule k
RuleWarnings(text, k) ==
    Cardinality({ i \in Positions(console, "Warning", text) :
                    \E a \in 1..Len(console[i].args) : console[i].args[a] = oci(LABEL_INFO[k]) })

\* C9 as stated: an orphaned prefixed label is reported as set without its
\* canonical label.
C9_AsStated ==
    pc = "checked" => \A k \in OrphanedRules : RuleWarnings(Orphaned, k) = 1

\* C9 (amended): the orphaned-label warning is recorded for a rule that is
\* not mandatory; for a mandatory rule - every rule of the table - the
\* missing canonical label is reported as 'not set by the image or any of
\* its bases' and the rule's remaining checks, the orphan warning included,
\* are skipped.
C9_OrphanedLabel ==
    pc = "checked" =>
        \A k \in OrphanedRules :
            IF LABEL_INFO[k].mandatory
            THEN /\ RuleWarnings(NotSet, k) = 1
                 /\ RuleWarnings(Orphaned, k) = 0
                 /\ RuleWarnings(Drifted, k) = 0
                 /\ RuleWarnings(NotSpecified, k) = 0
            ELSE RuleWarnings(Orphaned, k) = 1

\* com.suse.app.title is set, org.opencontainers.image.title is not, and the
\* prefix com.suse.app was detected
C9_Witness ==
    /\ pc = "checked"
    /\ Detected = {ComSuseApp}
    /\ 2 \in OrphanedRules
    /\ RuleWarnings(NotSet, 2) = 1

----------------------------------------------------------------------------
(* C10 *)

\* C10: an image with disturl but no release gets one 'No release' error
\* and one 'none of the tags are unique' warning; the errors counter is
\* positive from then on, and a run that completes exits with 1.
C10_DisturlWithoutRelease ==
    [][ /\ (/\ pc = "image"
            /\ "disturl" \in image.containerinfo.keys
            /\ "release" \notin image.containerinfo.keys) =>
               /\ Cardinality(Positions(console', "Error", NoRelease)) = 1
               /\ Cardinality(Positions(console', "Warning", NoUniqueTag)) = 1
               /\ result'.errors > 0
        /\ result.errors > 0 =>
               /\ result'.errors > 0
               /\ pc' = "done" => ret' = 1 ]_vars

\* such an image with the tag "a:1-42" and the compliant labels got the
\* error and the warning
C10_Witness ==
    /\ pc = "checked"
    /\ "disturl" \in image.containerinfo.keys
    /\ "release" \notin image.containerinfo.keys
    /\ image.containerinfo.tags = <<TagRelease>>
    /\ image.labels = BaseLabels
    /\ Printed("check_image", "Error", NoRelease) = 1
    /\ Printed("check_image", "Warning", NoUniqueTag) = 1
    /\ result.errors > 0

====
